---- MODULE Spec2Model ----
(***************************************************************************)
(* Model of main.py: the OpenAI client bootstrap at import time and the    *)
(* POST /generate-er-diagram handler generate_er_diagram.                  *)
(*                                                                         *)
(* Python strings are sequences of one-character strings.  An Optional     *)
(* value is a sequence of length at most one: None is <<>> and a present   *)
(* value v is <<v>>.  Human-readable messages (HTTP details, exception     *)
(* texts) are sequences of parts, so that an f-string is a concatenation.  *)
(*                                                                         *)
(* The handler is an async function without an await: the only place       *)
(* where another request can be observed between two of its statements is  *)
(* the upstream call.  It is therefore modelled as two steps, Receive      *)
(* (guards, prompt construction, issuing the call) and Reply (everything   *)
(* after the call returns or raises).  Requests are allowed to interleave  *)
(* at the upstream call, which covers every host concurrency model.        *)
(***************************************************************************)
EXTENDS Integers, Sequences, FiniteSets, TLC

VARIABLES client, pc, prompt, sent, calls, reply, resp

vars == <<client, pc, prompt, sent, calls, reply, resp>>

(* ------------------------------ bounds --------------------------------- *)

\* longest run of whitespace put in front of / behind an upstream text
MaxPad == 1

\* the requests in flight during one run of the process
Requests == {"r1", "r2"}

(* --------------------------- Optional values --------------------------- *)

None == <<>>

Some(v) == <<v>>

(* ------------------------------ strings -------------------------------- *)

\* the whitespace characters of the modelled alphabet (str.strip() strips them)
Whitespace == {" ", "\n"}

\* the literal "erDiagram" of mermaid_code.startswith("erDiagram")
KEYWORD == <<"e", "r", "D", "i", "a", "g", "r", "a", "m">>

RECURSIVE lstrip(_)
lstrip(s) ==
    IF s = <<>> THEN <<>>
    ELSE IF Head(s) \in Whitespace THEN lstrip(Tail(s))
    ELSE s

RECURSIVE rstrip(_)
rstrip(s) ==
    IF s = <<>> THEN <<>>
    ELSE IF s[Len(s)] \in Whitespace THEN rstrip(SubSeq(s, 1, Len(s) - 1))
    ELSE s

\* a plausible slip: only leading whitespace is removed
strip_leading_only(s) == lstrip(s)

\* str.strip()
strip(s) == rstrip(lstrip(s))

\* a plausible slip: the comparison is cut to the shorter of the two strings
startswith_no_length_check(s, p) ==
    LET n == IF Len(s) < Len(p) THEN Len(s) ELSE Len(p)
    IN  SubSeq(s, 1, n) = SubSeq(p, 1, n)

\* str.startswith(p)
startswith(s, p) == Len(s) >= Len(p) /\ SubSeq(s, 1, Len(p)) = p

(* ------------------------------ inputs --------------------------------- *)

RECURSIVE SeqsUpTo(_, _)
SeqsUpTo(S, n) ==
    IF n = 0 THEN {<<>>}
    ELSE LET shorter == SeqsUpTo(S, n - 1)
         IN  shorter \cup {<<c>> \o t : c \in S, t \in {u \in shorter : Len(u) = n - 1}}

Pads == SeqsUpTo(Whitespace, MaxPad)

\* the unpadded upstream texts: nothing, the keyword alone, the keyword
\* followed by a body, a text without the keyword, the keyword not in first
\* place, and a proper prefix of the keyword
Cores ==
    { <<>>,
      KEYWORD,
      KEYWORD \o <<"\n", "x">>,
      <<"x">>,
      <<"x", " ">> \o KEYWORD,
      SubSeq(KEYWORD, 1, Len(KEYWORD) - 1) }

Texts == {l \o c \o t : l \in Pads, c \in Cores, t \in Pads}

\* request.prompt values: empty, whitespace only, and non-blank ones
Prompts == { <<>>, <<" ">>, <<"\n", " ">>, <<"x">>, <<" ", "x", " ", "x", "\n">> }

\* str(e) of the errors the upstream call can raise
OpenAIErrorTexts == {"Rate limit exceeded", "Connection error."}

OtherErrorTexts == {"unexpected failure"}

\* what client.chat.completions.create(...) followed by
\* response.choices[0].message.content can produce
Replies ==
    {[kind |-> "content", content |-> Some(t), desc |-> ""] : t \in Texts}
    \cup {[kind |-> "content", content |-> None, desc |-> ""]}
    \cup {[kind |-> "no_choices", content |-> None, desc |-> ""]}
    \cup {[kind |-> "openai_error", content |-> None, desc |-> d] : d \in OpenAIErrorTexts}
    \cup {[kind |-> "other_error", content |-> None, desc |-> d] : d \in OtherErrorTexts}

NoReply == [kind |-> "", content |-> None, desc |-> ""]

\* os.getenv("OPENAI_API_KEY"): absent, set to the empty string, or set
EnvKeys == {None, Some(""), Some("sk-test")}

(* ----------------------- client bootstrap (import) --------------------- *)

Unset == "unset"

Available == "OpenAI"

Unavailable == "None"

\* lines 15-27: the try block and its two except clauses
InitClient(key, ctor_raises) ==
    IF key = None \/ key[1] = "" THEN Unavailable
    ELSE IF ctor_raises THEN Unavailable
    ELSE Available

(* --------------------------- prompt building --------------------------- *)

SYSTEM_PROMPT == "You are an expert database designer AI. ..."

create_system_prompt == SYSTEM_PROMPT

create_user_prompt(description) ==
    <<"\n", "Please generate the Mermaid ER diagram code based on the following database description:",
      "\n", "\n", "\"">> \o description \o <<"\"", "\n">>

NoMessages == [system |-> "", user |-> <<>>]

(* ------------------------------ responses ------------------------------ *)

NoResponse ==
    [status |-> 0, raised |-> "", mermaid_code |-> None, explanation |-> None, detail |-> <<>>]

\* ERDiagramResponse(mermaid_code=..., explanation=...) returned with 200
ERDiagramResponse(code, expl) ==
    [status |-> 200, raised |-> "", mermaid_code |-> Some(code), explanation |-> expl, detail |-> <<>>]

\* an exception object: its class, and for an HTTPException status and detail
Exc(type, status, text) == [type |-> type, status_code |-> status, text |-> text]

HTTPException(status, detail) == Exc("HTTPException", status, detail)

NoExc == Exc("", 0, <<>>)

\* str(e) as interpolated by the f-strings of lines 179 and 182; the text of
\* an HTTPException is "<status_code>: <detail>", that of the other
\* exceptions is their message
StrOf(e) ==
    IF e.type = "HTTPException" THEN <<ToString(e.status_code), ": ">> \o e.text
    ELSE e.text

\* the exception leaving the handler, as the response the caller sees
Propagate(e) ==
    [status |-> e.status_code, raised |-> e.type, mermaid_code |-> None,
     explanation |-> None, detail |-> e.text]

WARNING == "Warning: AI response format might be incorrect (did not start with 'erDiagram')."

(* ------------------------------- handler ------------------------------- *)

\* a plausible slip: the whitespace-only case is forgotten
IsBlank_empty_only(p) == p = <<>>

\* `not request.prompt or not request.prompt.strip()`
IsBlank(p) == p = <<>> \/ strip(p) = <<>>

\* a plausible slip: the two guards in the opposite order
Guards_empty_first(c, p) ==
    IF IsBlank(p) THEN "empty"
    ELSE IF c # Available THEN "unavailable"
    ELSE "pass"

\* lines 130-135: the two guards, in the order of the code
Guards(c, p) ==
    IF c # Available THEN "unavailable"
    ELSE IF IsBlank(p) THEN "empty"
    ELSE "pass"

\* a plausible slip: only None is treated as an empty completion
IsEmptyContent_none_only(content) == content = None

\* `not mermaid_code` for an Optional[str]
IsEmptyContent(content) == content = None \/ content[1] = <<>>

Raise(e) == [raised |-> TRUE, exc |-> e, value |-> NoResponse]

Return(v) == [raised |-> FALSE, exc |-> NoExc, value |-> v]

\* lines 143-175: the body of the try block, given what the upstream did
TryBody(rep) ==
    IF rep.kind = "openai_error" THEN Raise(Exc("OpenAIError", 0, <<rep.desc>>))
    ELSE IF rep.kind = "other_error" THEN Raise(Exc("Exception", 0, <<rep.desc>>))
    ELSE IF rep.kind = "no_choices" THEN Raise(Exc("IndexError", 0, <<"list index out of range">>))
    ELSE IF IsEmptyContent(rep.content)
         THEN Raise(HTTPException(500, <<"AI service returned an empty response.">>))
    ELSE LET mermaid_code == strip(rep.content[1])
         IN  IF ~startswith(mermaid_code, KEYWORD)
             THEN Return(ERDiagramResponse(mermaid_code, Some(WARNING)))
             ELSE Return(ERDiagramResponse(mermaid_code, None))

\* a plausible slip: the `except OpenAIError` clause is missing
ExceptClauses_no_openai(e) ==
    HTTPException(500, <<"An internal server error occurred: ">> \o StrOf(e))

\* a plausible slip: the catch-all `except Exception` clause is missing
ExceptClauses_no_catch_all(e) ==
    IF e.type = "OpenAIError"
    THEN HTTPException(503, <<"AI service error: ">> \o StrOf(e))
    ELSE e

\* lines 177-182: the two except clauses
ExceptClauses(e) ==
    IF e.type = "OpenAIError"
    THEN HTTPException(503, <<"AI service error: ">> \o StrOf(e))
    ELSE HTTPException(500, <<"An internal server error occurred: ">> \o StrOf(e))

\* lines 142-182: the try statement as a whole
AfterCall(rep) ==
    LET out == TryBody(rep)
    IN  IF out.raised THEN Propagate(ExceptClauses(out.exc)) ELSE out.value

\* a plausible slip: a failed upstream call is tried again
PcAfterReply_retry(rep) == IF rep.kind = "openai_error" THEN "idle" ELSE "done"

\* the handler returns or raises after the try statement; nothing loops
PcAfterReply(rep) == "done"

\* a plausible slip: the client is dropped after an upstream failure
ClientAfterReply_reset(c, rep) == IF rep.kind = "openai_error" THEN Unavailable ELSE c

\* the handler only reads the module-level client
ClientAfterReply(c, rep) == c

(* ------------------------------- actions ------------------------------- *)

Init ==
    /\ client = Unset
    /\ pc = [r \in Requests |-> "idle"]
    /\ prompt = [r \in Requests |-> <<>>]
    /\ sent = [r \in Requests |-> NoMessages]
    /\ calls = [r \in Requests |-> 0]
    /\ reply = [r \in Requests |-> NoReply]
    /\ resp = [r \in Requests |-> NoResponse]

\* import of the module: lines 15-27
Startup ==
    /\ client = Unset
    /\ \E key \in EnvKeys, ctor_raises \in BOOLEAN :
          client' = InitClient(key, ctor_raises)
    /\ UNCHANGED <<pc, prompt, sent, calls, reply, resp>>

\* generate_er_diagram up to and including the upstream call: lines 130-155
Receive(r) ==
    /\ client # Unset
    /\ pc[r] = "idle"
    /\ \E p \in Prompts :
          /\ prompt' = [prompt EXCEPT ![r] = p]
          /\ LET g == Guards(client, p)
             IN  IF g = "unavailable"
                 THEN /\ resp' = [resp EXCEPT ![r] = Propagate(HTTPException(503,
                                     <<"AI service is unavailable due to configuration error.">>))]
                      /\ pc' = [pc EXCEPT ![r] = "done"]
                      /\ UNCHANGED <<sent, calls>>
                 ELSE IF g = "empty"
                 THEN /\ resp' = [resp EXCEPT ![r] = Propagate(HTTPException(400,
                                     <<"Prompt cannot be empty.">>))]
                      /\ pc' = [pc EXCEPT ![r] = "done"]
                      /\ UNCHANGED <<sent, calls>>
                 ELSE /\ sent' = [sent EXCEPT ![r] =
                                     [system |-> create_system_prompt, user |-> create_user_prompt(p)]]
                      /\ calls' = [calls EXCEPT ![r] = @ + 1]
                      /\ pc' = [pc EXCEPT ![r] = "called"]
                      /\ resp' = [resp EXCEPT ![r] = NoResponse]
    /\ UNCHANGED <<client, reply>>

\* generate_er_diagram from the return of the upstream call on: lines 156-182
Reply(r) ==
    /\ pc[r] = "called"
    /\ \E rep \in Replies :
          /\ reply' = [reply EXCEPT ![r] = rep]
          /\ resp' = [resp EXCEPT ![r] = AfterCall(rep)]
          /\ pc' = [pc EXCEPT ![r] = PcAfterReply(rep)]
          /\ client' = ClientAfterReply(client, rep)
    /\ UNCHANGED <<prompt, sent, calls>>

Next ==
    \/ Startup
    \/ \E r \in Requests : Receive(r)
    \/ \E r \in Requests : Reply(r)

Spec == Init /\ [][Next]_vars

(* =========================== checked properties ======================== *)

(* The properties below state whitespace, prefixes and trimming directly   *)
(* on the characters, independently of strip, startswith and IsBlank.      *)

Done(r) == pc[r] = "done"

OnlyWhitespace(s) == \A i \in 1..Len(s) : s[i] \in Whitespace

BeginsWith(s, p) == Len(s) >= Len(p) /\ \A i \in 1..Len(p) : s[i] = p[i]

\* s without its leading and trailing whitespace: the characters from the
\* first to the last one that is not whitespace
Trimmed(s) ==
    IF OnlyWhitespace(s) THEN <<>>
    ELSE LET first == CHOOSE i \in 1..Len(s) :
                          s[i] \notin Whitespace /\ \A k \in 1..(i - 1) : s[k] \in Whitespace
             last  == CHOOSE j \in 1..Len(s) :
                          s[j] \notin Whitespace /\ \A k \in (j + 1)..Len(s) : s[k] \in Whitespace
         IN  SubSeq(s, first, last)

\* the upstream call of request r returned a completion whose text is present
GotText(r) == Done(r) /\ reply[r].kind = "content" /\ reply[r].content # None

Contains(detail, part) == \E i \in 1..Len(detail) : detail[i] = part

\* C1 as stated: a blank prompt (empty or whitespace only) is answered with
\* 400 and without an upstream call, whatever the state of the client.
C1_AsStated ==
    \A r \in Requests :
        (pc[r] # "idle" /\ OnlyWhitespace(prompt[r]))
            => (Done(r) /\ resp[r].status = 400 /\ calls[r] = 0)

\* C1 amended: a blank prompt never reaches the upstream (no call is made and
\* the request is over); the answer is 400 when the client is available and
\* 503 when it is not, because the client guard comes first.
C1_BlankPrompt ==
    \A r \in Requests :
        (pc[r] # "idle" /\ OnlyWhitespace(prompt[r]))
            => /\ Done(r)
               /\ calls[r] = 0
               /\ resp[r].raised = "HTTPException"
               /\ (client = Available => resp[r].status = 400)
               /\ (client = Unavailable => resp[r].status = 503)

C1_Witness ==
    \E r \in Requests :
        /\ Done(r) /\ client = Available
        /\ prompt[r] # <<>> /\ OnlyWhitespace(prompt[r])
        /\ resp[r].status = 400 /\ calls[r] = 0

\* C2: a non-empty prompt received while the client is None is answered with
\* 503 and the request has made no upstream call.
C2_Unavailable ==
    \A r \in Requests :
        (pc[r] # "idle" /\ prompt[r] # <<>> /\ client = Unavailable)
            => (Done(r) /\ resp[r].status = 503 /\ resp[r].raised = "HTTPException"
                /\ calls[r] = 0)

C2_Witness ==
    \E r, q \in Requests :
        /\ client = Unavailable
        /\ Done(r) /\ ~OnlyWhitespace(prompt[r]) /\ resp[r].status = 503 /\ calls[r] = 0
        /\ Done(q) /\ prompt[q] # <<>> /\ OnlyWhitespace(prompt[q]) /\ resp[q].status = 503

\* C3 as stated: an upstream text that begins with erDiagram is returned with
\* 200, mermaid_code equal to that exact text, and a null explanation.
C3_AsStated ==
    \A r \in Requests :
        (GotText(r) /\ BeginsWith(reply[r].content[1], KEYWORD))
            => /\ resp[r].status = 200
               /\ resp[r].mermaid_code = Some(reply[r].content[1])
               /\ resp[r].explanation = None

\* C3 amended: an upstream text that begins with erDiagram is returned with
\* 200, mermaid_code equal to that text without its surrounding (here:
\* trailing) whitespace, and a null explanation; the text is returned
\* unchanged exactly when it does not end in whitespace.
C3_Keyword ==
    \A r \in Requests :
        (GotText(r) /\ BeginsWith(reply[r].content[1], KEYWORD))
            => LET text == reply[r].content[1]
               IN  /\ resp[r].status = 200
                   /\ resp[r].raised = ""
                   /\ resp[r].mermaid_code = Some(Trimmed(text))
                   /\ resp[r].explanation = None
                   /\ (text[Len(text)] \notin Whitespace
                          <=> resp[r].mermaid_code = Some(text))

C3_Witness ==
    \E r, q \in Requests :
        /\ GotText(r) /\ BeginsWith(reply[r].content[1], KEYWORD)
        /\ reply[r].content[1][Len(reply[r].content[1])] \in Whitespace
        /\ resp[r].status = 200 /\ resp[r].explanation = None
        /\ GotText(q) /\ BeginsWith(reply[q].content[1], KEYWORD)
        /\ resp[q].mermaid_code = Some(reply[q].content[1])
        /\ Len(reply[q].content[1]) > Len(KEYWORD)

\* C4 as stated: a non-empty upstream text that does not begin with erDiagram
\* is returned with 200, mermaid_code equal to the trimmed text, and a
\* non-null explanation.
C4_AsStated ==
    \A r \in Requests :
        (GotText(r) /\ reply[r].content[1] # <<>>
                    /\ ~BeginsWith(reply[r].content[1], KEYWORD))
            => /\ resp[r].status = 200
               /\ resp[r].mermaid_code = Some(Trimmed(reply[r].content[1]))
               /\ resp[r].explanation # None

\* C4 amended: a non-empty upstream text whose whitespace-trimmed form does
\* not begin with erDiagram is returned with 200, mermaid_code equal to the
\* trimmed text, and a non-null explanation.
C4_NoKeyword ==
    \A r \in Requests :
        (GotText(r) /\ reply[r].content[1] # <<>>
                    /\ ~BeginsWith(Trimmed(reply[r].content[1]), KEYWORD))
            => /\ resp[r].status = 200
               /\ resp[r].raised = ""
               /\ resp[r].mermaid_code = Some(Trimmed(reply[r].content[1]))
               /\ resp[r].explanation # None

C4_Witness ==
    \E r, q \in Requests :
        /\ GotText(r) /\ resp[r].status = 200 /\ resp[r].explanation # None
        /\ resp[r].mermaid_code = Some(SubSeq(KEYWORD, 1, Len(KEYWORD) - 1))
        /\ reply[r].content[1] # resp[r].mermaid_code[1]
        /\ GotText(q) /\ resp[q].status = 200 /\ resp[q].explanation # None
        /\ resp[q].mermaid_code = Some(<<"x", " ">> \o KEYWORD)

\* C5: when the upstream call succeeds and the first completion's text is
\* the empty string or None, the request ends with 500, never with 200.
C5_EmptyResult ==
    \A r \in Requests :
        (Done(r) /\ reply[r].kind = "content"
                 /\ (reply[r].content = None \/ reply[r].content = Some(<<>>)))
            => (resp[r].status = 500 /\ resp[r].raised = "HTTPException"
                /\ resp[r].mermaid_code = None)

C5_Witness ==
    \E r, q \in Requests :
        /\ Done(r) /\ reply[r].kind = "content" /\ reply[r].content = Some(<<>>)
        /\ resp[r].status = 500
        /\ Done(q) /\ reply[q].kind = "content" /\ reply[q].content = None
        /\ resp[q].status = 500

\* C6: when the upstream call raises an OpenAIError, the request ends with
\* 503 and the detail contains the text of that error.
C6_UpstreamError ==
    \A r \in Requests :
        (Done(r) /\ reply[r].kind = "openai_error")
            => /\ resp[r].status = 503
               /\ resp[r].raised = "HTTPException"
               /\ Contains(resp[r].detail, reply[r].desc)

C6_Witness ==
    \E r, q \in Requests :
        /\ Done(r) /\ reply[r].kind = "openai_error" /\ resp[r].status = 503
        /\ Done(q) /\ reply[q].kind = "openai_error" /\ resp[q].status = 503
        /\ reply[r].desc # reply[q].desc
        /\ resp[r].detail # resp[q].detail

\* C7: a request calls the upstream at most once; once it is past the guards
\* it has called it exactly once if and only if the client is available and
\* the prompt is non-blank; and a finished request, in particular one whose
\* upstream call failed, never calls again.
C7_SingleCall ==
    [][\A r \in Requests :
          /\ calls'[r] <= 1
          /\ (pc'[r] = "idle" => calls'[r] = 0)
          /\ (pc'[r] # "idle" =>
                 (calls'[r] = 1 <=> (client' = Available /\ ~OnlyWhitespace(prompt'[r]))))
          /\ (Done(r) => (pc'[r] = "done" /\ calls'[r] = calls[r]))
          /\ (pc[r] = "called" /\ pc'[r] # "called" =>
                 (pc'[r] = "done" /\ calls'[r] = calls[r]))]_vars

C7_Witness ==
    \E r, q \in Requests :
        /\ Done(r) /\ reply[r].kind = "openai_error" /\ calls[r] = 1
        /\ Done(q) /\ resp[q].status = 400 /\ calls[q] = 0

\* C8: once set at startup the client never changes; a step of one request
\* changes nothing that belongs to another request; and two finished
\* requests with the same prompt and the same upstream reply have the same
\* outcome.
C8_ClientFixed ==
    [][/\ (client # Unset => client' = client)
       /\ \A r, q \in Requests :
             (r # q /\ pc'[r] # pc[r])
                 => /\ pc'[q] = pc[q] /\ prompt'[q] = prompt[q] /\ sent'[q] = sent[q]
                    /\ calls'[q] = calls[q] /\ reply'[q] = reply[q] /\ resp'[q] = resp[q]
       /\ \A r, q \in Requests :
             (pc'[r] = "done" /\ pc'[q] = "done"
                 /\ prompt'[r] = prompt'[q] /\ reply'[r] = reply'[q])
                 => (resp'[r] = resp'[q] /\ calls'[r] = calls'[q])]_vars

C8_Witness ==
    \E r, q \in Requests :
        /\ r # q /\ client = Available
        /\ Done(r) /\ Done(q)
        /\ prompt[r] = prompt[q] /\ reply[r] = reply[q]
        /\ reply[r].kind = "openai_error"
        /\ resp[r] = resp[q]

\* C9: a finished request either returned 200 or raised an HTTPException
\* with status 400, 503 or 500; a failure after the guards that is not an
\* OpenAIError (an exception of another class, or a response without
\* completions) gives 500 with a detail that includes the failure's text.
C9_ErrorsMapped ==
    \A r \in Requests :
        Done(r) =>
            /\ \/ (resp[r].status = 200 /\ resp[r].raised = "")
               \/ (resp[r].status \in {400, 503, 500} /\ resp[r].raised = "HTTPException")
            /\ (reply[r].kind = "other_error" =>
                   (resp[r].status = 500 /\ Contains(resp[r].detail, reply[r].desc)))
            /\ (reply[r].kind = "no_choices" =>
                   (resp[r].status = 500
                    /\ Contains(resp[r].detail, "list index out of range")))

C9_Witness ==
    \E r, q \in Requests :
        /\ Done(r) /\ reply[r].kind = "no_choices" /\ resp[r].status = 500
        /\ Done(q) /\ reply[q].kind = "other_error" /\ resp[q].status = 500

\* C10: every 200 response carries a mermaid_code of at least one character,
\* also when the upstream text is made only of whitespace.
C10_NonEmptyCode ==
    \A r \in Requests :
        (Done(r) /\ resp[r].status = 200)
            => (resp[r].mermaid_code # None /\ resp[r].mermaid_code[1] # <<>>)

====
